---- MODULE Spec2Model ----
(***************************************************************************)
(* Model of mob's task engine (src/src/tasks/task.cpp): the lifecycle of   *)
(* task::run(), cooperative interruption, run_tool's tool registry, the    *)
(* per-thread context registry and parallel_tasks; of one run of the git   *)
(* tool (src/src/tools/git.cpp); and of task::name_matches().              *)
(*                                                                         *)
(* Tasks are numbered: 0 is the parallel_tasks object, 1..MaxChildren are  *)
(* ordinary tasks.  Threads are numbered: 0 is the thread that constructed *)
(* every task, thread i > 0 is a worker thread.                            *)
(***************************************************************************)
EXTENDS Integers, Sequences, FiniteSets, TLC

MaxChildren == 2      \* most children ever added to the parallel_tasks
MaxInterrupts == 2    \* most interrupt() calls made by the outside driver
MaxLen == 2           \* longest name and longest pattern of a name_matches() call

Parallel == 0
MainThread == 0
Tasks == 0..MaxChildren
Children == 1..MaxChildren
Threads == 0..MaxChildren
Workers == 1..MaxChildren
Tools == {"git", "patcher"}

\* names_[0] of a task; the parallel_tasks object is named "parallel"
name(tk) == IF tk = Parallel THEN <<"parallel", 0>> ELSE <<"task", tk>>
\* the static context returned by cx() when the thread has no record
bad == <<"?", 0>>

VARIABLES
    cfg,          \* conf().global(): the process-wide switches
    enabledConf,  \* conf().task(names()).get<bool>("enabled"), per task
    kind,         \* concrete type of a task: "task" (default hooks) or "boost_di"
    children_,    \* parallel_tasks::children_
    registry,     \* tasks registered with task_manager, in construction order
    interrupted_, \* task::interrupted_, per task
    tools_,       \* task::tools_, per task
    contexts_,    \* task::contexts_, per task
    threads_,     \* parallel_tasks::threads_
    pc,           \* position of every thread
    sig,          \* signal a thread is unwinding with, until a catch clause
                  \* takes it: "none", "interrupted", "bailed"
    at,           \* source line of the check_interrupted() that raised the
                  \* signal a thread is unwinding with, else 0
    tool,         \* the tool a thread's run_tool is working on, or "none"
    self,         \* per thread: the task whose running_from_thread it is in, the
                  \* thread name it was given, the task whose run() is f
    idx,          \* per thread: loop position (children_, threads_, registry)
    hooks,        \* per task: the hooks invoked so far, in order
    toolRan,      \* per thread: run() of its current tool has been called
    toolGotInt,   \* (task, tool) pairs: registered tools that were sent interrupt()
    forwarded,    \* the t->interrupt() calls the latest step made, in order, as
                  \* (task, tool) pairs; empty when the step was no interrupt()
    driverCalls,  \* number of interrupt() calls made by the outside driver
    cxRet,        \* the cx() call the latest step made: its thread, its task
                  \* and the context it returned; NoCx when it made none
    git,          \* one run of the git tool: its parameters, the destination
                  \* directory, its position and the operations it issued
    calc          \* one name_matches() call: its arguments and its result

\* what no step of the task engine changes: the configuration, the git tool
\* run and the name_matches() call
confVars == <<cfg, enabledConf, kind, children_, registry, git, calc>>
histVars == <<hooks, toolRan, at>>
intVars == <<interrupted_, toolGotInt>>
vars == <<cfg, enabledConf, kind, children_, registry, interrupted_, tools_,
          contexts_, threads_, pc, sig, at, tool, self, idx, hooks, toolRan,
          toolGotInt, forwarded, driverCalls, cxRet, git, calc>>

Range(s) == {s[i] : i \in 1..Len(s)}

NoSelf == [on |-> -1, tname |-> bad, runs |-> -1]
NoCx == [th |-> -1, on |-> -1, cx |-> bad]
NoGit == [pc |-> "none"]
NoCalc == [pc |-> "none"]

(***************************************************************************)
(* clean flags                                                             *)
(***************************************************************************)
CleanNames == <<"redownload", "reextract", "reconfigure", "rebuild">>

\* a make_clean_flags() that leaves reextract out
make_clean_flags_no_reextract ==
    {CleanNames[i] : i \in {j \in {1, 3, 4} : cfg[CleanNames[j]]}}

\* task::clean as the set of flag names that are set; nothing is {}
make_clean_flags ==
    {CleanNames[i] : i \in {j \in 1..4 : cfg[CleanNames[j]]}}

\* join(v, sep): the elements of v with sep between them
RECURSIVE join(_, _)
join(v, sep) ==
    IF Len(v) <= 1 THEN v
    ELSE <<v[1], sep>> \o join(Tail(v), sep)

\* to_string(task::clean): the names of the flags set, pushed in the order
\* redownload, reextract, reconfigure, rebuild and joined by "|"
to_string(c) ==
    join(SelectSeq(CleanNames, LAMBDA n : n \in c), "|")

\* task::enabled(); parallel_tasks::enabled() is always true
enabled(tk) == IF tk = Parallel THEN TRUE ELSE enabledConf[tk]

\* task::get_source_path() is empty unless the concrete task has a source path
get_source_path_empty(tk) == kind[tk] # "boost_di"

(***************************************************************************)
(* context registry                                                        *)
(***************************************************************************)
\* task::add_context_for_this_thread.  Every operation of the registry reads
\* or erases the first record of the calling thread only, so the order
\* between records of different threads is never observed: the model keeps
\* contexts_ grouped by thread id, and inside a group in push_back order.
add_context_for_this_thread(cs, tid, nm) ==
    SelectSeq(cs, LAMBDA r : r.tid <= tid)
        \o <<[tid |-> tid, cx |-> nm]>>
        \o SelectSeq(cs, LAMBDA r : r.tid > tid)

\* a remove_context_for_this_thread that erases contexts_.begin()
remove_context_front(cs, tid) ==
    IF cs = <<>> THEN cs ELSE Tail(cs)

\* task::remove_context_for_this_thread: erases the first record of the thread
remove_context_for_this_thread(cs, tid) ==
    LET hits == {i \in 1..Len(cs) : cs[i].tid = tid}
    IN  IF hits = {} THEN cs
        ELSE LET k == CHOOSE i \in hits : \A j \in hits : i <= j
             IN  SubSeq(cs, 1, k - 1) \o SubSeq(cs, k + 1, Len(cs))

\* task::cx() const: the first record of the thread, else the static "?" context
cx(tk, tid) ==
    LET cs == contexts_[tk]
        hits == {i \in 1..Len(cs) : cs[i].tid = tid}
    IN  IF hits = {} THEN bad
        ELSE cs[CHOOSE i \in hits : \A j \in hits : i <= j].cx

\* the task constructor, as far as the state goes: a record for the
\* constructing thread; registration unless the task is named "parallel"
ConstructedContexts == [tk \in Tasks |-> <<[tid |-> MainThread, cx |-> name(tk)]>>]


(***************************************************************************)
(* Granularity: an action is one access to state that threads share        *)
(* (interrupted_, tools_, contexts_) followed by the thread's own code up  *)
(* to its next such access.  pc names the access a thread makes next.      *)
(***************************************************************************)
Goto(th, l) == pc' = [pc EXCEPT ![th] = l]

\* a check_interrupted() that never throws
check_interrupted_never(tk) == FALSE

\* task::check_interrupted: TRUE when it throws interrupted()
check_interrupted(tk) == interrupted_[tk]

\* clean_task() reaches do_clean()
clean_task_hook(tk) ==
    cfg.clean /\ enabled(tk) /\ make_clean_flags # {}

\* a fetch() that does not look at the global fetch switch
fetch_hook_no_switch(tk) == enabled(tk)

\* fetch() reaches do_fetch()
fetch_hook(tk) == cfg.fetch /\ enabled(tk)

\* build_and_install() reaches do_build_and_install()
build_and_install_hook(tk) == cfg.build /\ enabled(tk)

\* a run() that builds before it fetches
run_after_check_build_first(p) ==
    CASE p = "chk_clean" -> "build"
      [] p = "chk_build" -> "fetch"
      [] p = "chk_fetch" -> "return"

\* the order of run(): the phase that follows each check_interrupted()
run_after_check(p) ==
    CASE p = "chk_clean" -> "fetch"
      [] p = "chk_fetch" -> "build"
      [] p = "chk_build" -> "return"

\* source line of each check_interrupted() of run() and fetch()
CheckLine(p) ==
    CASE p = "chk_clean" -> 354
      [] p = "chk_fetch" -> 358
      [] p = "chk_build" -> 362
      [] p = "chk_do_fetch" -> 409

\* The thread's own code from the start of a phase to its next shared
\* access: the hooks it has then invoked, where it stands, the tool it is
\* about to run.
\* a run() that looks at the flag before its first phase
task_run_checks_first(tk) ==
    IF ~enabled(tk) \/ interrupted_[tk]
      THEN [pc |-> "rft_guard", hooks |-> hooks[tk], tool |-> "none"]
      ELSE [pc |-> "chk_clean",
            hooks |-> IF clean_task_hook(tk) THEN Append(hooks[tk], "clean")
                      ELSE hooks[tk],
            tool |-> "none"]

\* run() up to its first check_interrupted(): enabled(), clean_task()
task_run(tk) ==
    IF ~enabled(tk)
      THEN [pc |-> "rft_guard", hooks |-> hooks[tk], tool |-> "none"]
      ELSE [pc |-> "chk_clean",
            hooks |-> IF clean_task_hook(tk) THEN Append(hooks[tk], "clean")
                      ELSE hooks[tk],
            tool |-> "none"]

\* fetch() up to do_fetch(): task::do_fetch() is a no-op, boost_di::do_fetch()
\* is a run_tool() of a git tool
task_fetch(tk) ==
    IF ~fetch_hook(tk)
      THEN [pc |-> "chk_fetch", hooks |-> hooks[tk], tool |-> "none"]
      ELSE IF kind[tk] = "boost_di"
             THEN [pc |-> "tool_push", hooks |-> Append(hooks[tk], "fetch"),
                   tool |-> "git"]
             ELSE [pc |-> "chk_do_fetch", hooks |-> Append(hooks[tk], "fetch"),
                   tool |-> "none"]

\* build_and_install()
task_build_and_install(tk) ==
    [pc |-> "chk_build",
     hooks |-> IF build_and_install_hook(tk) THEN Append(hooks[tk], "build")
               ELSE hooks[tk],
     tool |-> "none"]

Phase(ph, tk) ==
    CASE ph = "fetch" -> task_fetch(tk)
      [] ph = "build" -> task_build_and_install(tk)
      [] ph = "return" -> [pc |-> "rft_guard", hooks |-> hooks[tk],
                           tool |-> "none"]

\* the check_interrupted() that run() makes after each phase, then the
\* next phase
run_check_interrupted(th) ==
    LET tk == self[th].runs IN
    /\ pc[th] \in {"chk_clean", "chk_fetch", "chk_build"}
    /\ IF check_interrupted(tk)
         THEN /\ Goto(th, "rft_guard")
              /\ sig' = [sig EXCEPT ![th] = "interrupted"]
              /\ at' = [at EXCEPT ![th] = CheckLine(pc[th])]
              /\ UNCHANGED <<hooks, tool>>
         ELSE LET r == Phase(run_after_check(pc[th]), tk) IN
              /\ Goto(th, r.pc)
              /\ hooks' = [hooks EXCEPT ![tk] = r.hooks]
              /\ tool' = [tool EXCEPT ![th] = r.tool]
              /\ UNCHANGED <<sig, at>>
    /\ forwarded' = <<>> /\ cxRet' = NoCx
    /\ UNCHANGED <<confVars, intVars, tools_, contexts_, threads_, self, idx,
                   toolRan, driverCalls>>

\* fetch() after do_fetch(): check_interrupted(), then the patcher tool if
\* the task has a source path
fetch_check_and_patch(th) ==
    LET tk == self[th].runs IN
    /\ pc[th] = "chk_do_fetch"
    /\ IF check_interrupted(tk)
         THEN /\ Goto(th, "rft_guard")
              /\ sig' = [sig EXCEPT ![th] = "interrupted"]
              /\ at' = [at EXCEPT ![th] = CheckLine(pc[th])]
              /\ UNCHANGED tool
         ELSE /\ UNCHANGED <<sig, at>>
              /\ IF get_source_path_empty(tk)
                   THEN Goto(th, "chk_fetch") /\ UNCHANGED tool
                   ELSE Goto(th, "tool_push")
                        /\ tool' = [tool EXCEPT ![th] = "patcher"]
    /\ forwarded' = <<>> /\ cxRet' = NoCx
    /\ UNCHANGED <<confVars, intVars, tools_, contexts_, threads_, self, idx,
                   hooks, toolRan, driverCalls>>

(***************************************************************************)
(* task::run_tool_impl                                                     *)
(***************************************************************************)
\* a run_tool_impl that pops the tool on its normal return only
run_tool_guard_on_return(tl, t, s) ==
    IF s = "none" THEN SelectSeq(tl, LAMBDA x : x # t) ELSE tl

\* the guard of run_tool_impl: std::erase(tools_, t), whatever the exit is
run_tool_guard(tl, t, s) == SelectSeq(tl, LAMBDA x : x # t)

\* a run_tool_impl without the check before t->run()
run_tool_calls_run_unchecked(tk) == TRUE

\* whether run_tool_impl goes on to t->run() after its first check
run_tool_calls_run(tk) == ~check_interrupted(tk)

\* a run_tool_impl that does not register the tool
run_tool_registers_nothing(tl, t) == tl

\* tools_.push_back(t)
run_tool_registers(tl, t) == Append(tl, t)

\* tools_.push_back(t) under tools_mutex_
run_tool_push(th) ==
    LET tk == self[th].runs IN
    /\ pc[th] = "tool_push"
    /\ tools_' = [tools_ EXCEPT ![tk] = run_tool_registers(@, tool[th])]
    /\ Goto(th, "tool_pre")
    /\ forwarded' = <<>> /\ cxRet' = NoCx
    /\ UNCHANGED <<confVars, intVars, histVars, contexts_, threads_, sig,
                   tool, self, idx, driverCalls>>

\* the check_interrupted() before t->run()
run_tool_check_before(th) ==
    LET tk == self[th].runs IN
    /\ pc[th] = "tool_pre"
    /\ IF run_tool_calls_run(tk)
         THEN /\ Goto(th, "tool_call")
              /\ UNCHANGED <<sig, at>>
         ELSE /\ Goto(th, "tool_pop")
              /\ sig' = [sig EXCEPT ![th] = "interrupted"]
              /\ at' = [at EXCEPT ![th] = 462]
    /\ forwarded' = <<>> /\ cxRet' = NoCx
    /\ UNCHANGED <<confVars, intVars, tools_, contexts_, threads_, tool, self,
                   idx, hooks, toolRan, driverCalls>>

\* the check passed: t->run() is called
run_tool_start(th) ==
    /\ pc[th] = "tool_call"
    /\ Goto(th, "tool_run")
    /\ toolRan' = [toolRan EXCEPT ![th] = TRUE]
    /\ forwarded' = <<>> /\ cxRet' = NoCx
    /\ UNCHANGED <<confVars, intVars, tools_, contexts_, threads_, sig, at,
                   tool, self, idx, hooks, driverCalls>>

\* t->run() ends: the tool bails out, or it returns and run_tool_impl makes
\* its second check_interrupted()
run_tool_check_after(th) ==
    LET tk == self[th].runs IN
    /\ pc[th] = "tool_run"
    /\ Goto(th, "tool_pop")
    /\ \E outcome \in {"none", "bailed"} :
         IF outcome = "bailed"
           THEN sig' = [sig EXCEPT ![th] = "bailed"] /\ UNCHANGED at
           ELSE IF check_interrupted(tk)
                  THEN /\ sig' = [sig EXCEPT ![th] = "interrupted"]
                       /\ at' = [at EXCEPT ![th] = 464]
                  ELSE UNCHANGED <<sig, at>>
    /\ forwarded' = <<>> /\ cxRet' = NoCx
    /\ UNCHANGED <<confVars, intVars, tools_, contexts_, threads_, tool, self,
                   idx, hooks, toolRan, driverCalls>>

\* the guard runs and the tool is gone; run_tool returns to fetch() or the
\* signal goes on up
run_tool_pop(th) ==
    LET tk == self[th].runs IN
    /\ pc[th] = "tool_pop"
    /\ tools_' = [tools_ EXCEPT ![tk] = run_tool_guard(@, tool[th], sig[th])]
    /\ tool' = [tool EXCEPT ![th] = "none"]
    /\ toolRan' = [toolRan EXCEPT ![th] = FALSE]
    /\ toolGotInt' = toolGotInt \ {<<tk, tool[th]>>}
    /\ Goto(th, IF sig[th] # "none" THEN "rft_guard"
                ELSE IF tool[th] = "git" THEN "chk_do_fetch"
                ELSE "chk_fetch")
    /\ forwarded' = <<>> /\ cxRet' = NoCx
    /\ UNCHANGED <<confVars, interrupted_, hooks, at, contexts_,
                   threads_, sig, self, idx, driverCalls>>

(***************************************************************************)
(* task::interrupt                                                         *)
(***************************************************************************)
\* an interrupt() that sets the flag and forwards to no tool
interrupt_forward_none(tl) == <<>>

\* the tools interrupt() forwards to: every entry of tools_, in order
interrupt_forward(tl) == tl

\* the value interrupt() leaves in interrupted_
interrupt_flag(old) == TRUE

\* the whole of task::interrupt(), which holds tools_mutex_ throughout
interrupt(tk) ==
    /\ interrupted_' = [interrupted_ EXCEPT ![tk] = interrupt_flag(@)]
    /\ toolGotInt' = toolGotInt \cup
                       {<<tk, t>> : t \in Range(interrupt_forward(tools_[tk]))}
    /\ forwarded' = [i \in 1..Len(interrupt_forward(tools_[tk])) |->
                        <<tk, interrupt_forward(tools_[tk])[i]>>]
    /\ cxRet' = NoCx

\* the outside driver calls interrupt() on a task
driver_interrupt(tk) ==
    /\ driverCalls < MaxInterrupts
    /\ tk \in Range(registry)
    /\ driverCalls' = driverCalls + 1
    /\ interrupt(tk)
    /\ UNCHANGED <<confVars, histVars, tools_, contexts_, threads_, pc, sig,
                   tool, self, idx>>

(***************************************************************************)
(* task::running_from_thread                                               *)
(***************************************************************************)
\* a running_from_thread that treats interrupted like bailed
running_from_thread_catch_both(s) ==
    IF s \in {"bailed", "interrupted"} THEN "interrupt_all" ELSE "finished"

\* a running_from_thread without its catch (interrupted): the signal leaves
\* the thread function and the process is terminated
running_from_thread_catch_bailed_only(s) ==
    IF s = "bailed" THEN "interrupt_all"
    ELSE IF s = "interrupted" THEN "terminate" ELSE "finished"

\* the catch clause chosen by the signal f() ended with
running_from_thread_catch(s) ==
    IF s = "bailed" THEN "interrupt_all" ELSE "finished"

\* add_context_for_this_thread(thread_name), then f() up to its first
\* shared access
running_from_thread_add(th) ==
    LET tk == self[th].runs IN
    /\ pc[th] = "rft_add"
    /\ contexts_' = [contexts_ EXCEPT ![self[th].on] =
                       add_context_for_this_thread(@, th, self[th].tname)]
    /\ IF tk = -1
         THEN Goto(th, "f") /\ UNCHANGED hooks
         ELSE /\ Goto(th, task_run(tk).pc)
              /\ hooks' = [hooks EXCEPT ![tk] = task_run(tk).hooks]
    /\ forwarded' = <<>> /\ cxRet' = NoCx
    /\ UNCHANGED <<confVars, intVars, at, toolRan, tools_, threads_, sig, tool,
                   self, idx, driverCalls>>

\* f() has ended: the guard removes the context, then the catch clause
running_from_thread_guard(th) ==
    /\ pc[th] = "rft_guard"
    /\ contexts_' = [contexts_ EXCEPT ![self[th].on] =
                       remove_context_for_this_thread(@, th)]
    /\ Goto(th, LET c == running_from_thread_catch(sig[th]) IN
                IF c = "interrupt_all" /\ Len(registry) = 0 THEN "finished"
                ELSE c)
    /\ sig' = [sig EXCEPT ![th] = "none"]
    /\ at' = [at EXCEPT ![th] = 0]
    /\ idx' = [idx EXCEPT ![th] = 1]
    /\ forwarded' = <<>> /\ cxRet' = NoCx
    /\ UNCHANGED <<confVars, intVars, hooks, toolRan, tools_, threads_, tool,
                   self, driverCalls>>

\* catch(bailed): task_manager::interrupt_all(), one registered task at a time
interrupt_all(th) ==
    /\ pc[th] = "interrupt_all"
    /\ interrupt(registry[idx[th]])
    /\ idx' = [idx EXCEPT ![th] = IF @ = Len(registry) THEN 1 ELSE @ + 1]
    /\ Goto(th, IF idx[th] = Len(registry) THEN "finished" ELSE "interrupt_all")
    /\ UNCHANGED <<confVars, histVars, tools_, contexts_, threads_, sig, tool,
                   self, driverCalls>>

(***************************************************************************)
(* parallel_tasks::run and parallel_tasks::join, on the main thread        *)
(***************************************************************************)
\* a join() that does not wait
joined_at_once(th) == TRUE

\* join() may pass a thread once it has finished
joined(th) == pc[th] = "finished"

\* a run() whose threads call running_from_thread() of the child
run_thread_owner_child(tk) == tk

\* the task whose running_from_thread() the threads of run() call: this
run_thread_owner(tk) == Parallel

\* one turn of the loop of run(): start a thread for children_[idx]
parallel_tasks_run(th) ==
    LET i == idx[th] IN
    /\ th = MainThread /\ pc[th] = "run" /\ i <= Len(children_)
    /\ threads_' = Append(threads_, i)
    /\ pc' = [pc EXCEPT ![i] = "rft_add",
                        ![th] = IF i = Len(children_) THEN "join" ELSE "run"]
    /\ self' = [self EXCEPT ![i] = [on |-> run_thread_owner(children_[i]),
                                    tname |-> name(children_[i]),
                                    runs |-> children_[i]]]
    /\ idx' = [idx EXCEPT ![th] = IF i = Len(children_) THEN 1 ELSE i + 1]
    /\ forwarded' = <<>> /\ cxRet' = NoCx
    /\ UNCHANGED <<confVars, intVars, histVars, tools_, contexts_, sig, tool,
                   driverCalls>>

\* one turn of the loop of join(): t.join()
parallel_tasks_join(th) ==
    /\ th = MainThread /\ pc[th] = "join" /\ idx[th] <= Len(threads_)
    /\ joined(threads_[idx[th]])
    /\ idx' = [idx EXCEPT ![th] = @ + 1]
    /\ forwarded' = <<>> /\ cxRet' = NoCx
    /\ UNCHANGED <<confVars, intVars, histVars, tools_, contexts_, threads_,
                   pc, sig, tool, self, driverCalls>>

\* the end of join(): threads_.clear(), and run() returns
parallel_tasks_join_clear(th) ==
    /\ th = MainThread /\ pc[th] = "join" /\ idx[th] > Len(threads_)
    /\ threads_' = <<>>
    /\ Goto(th, "returned")
    /\ forwarded' = <<>> /\ cxRet' = NoCx
    /\ UNCHANGED <<confVars, intVars, histVars, tools_, contexts_, sig, tool,
                   self, idx, driverCalls>>

(***************************************************************************)
(* The context registry used directly: threads enter running_from_thread  *)
(* of a task with some function f, look contexts up, remove their record   *)
(***************************************************************************)
\* the task whose registry the threads work on: the first one constructed
CxTask == registry[1]

\* the name a thread passes as thread_name
ThreadName(th) == <<"job", th>>

\* running_from_thread(thread_name, f) called on the thread that
\* constructed the task
direct_call(th) ==
    /\ th = MainThread /\ pc[th] = "idle"
    /\ self' = [self EXCEPT ![th] = [on |-> CxTask, tname |-> ThreadName(th),
                                     runs |-> -1]]
    /\ Goto(th, "rft_add")
    /\ forwarded' = <<>> /\ cxRet' = NoCx
    /\ UNCHANGED <<confVars, intVars, histVars, tools_, contexts_, threads_,
                   sig, tool, idx, driverCalls>>

\* task::parallel(): the pool runs running_from_thread(name, f) on a
\* thread of its own
task_parallel(th) ==
    /\ th \in Workers /\ pc[th] = "idle"
    /\ self' = [self EXCEPT ![th] = [on |-> CxTask, tname |-> ThreadName(th),
                                     runs |-> -1]]
    /\ Goto(th, "rft_add")
    /\ forwarded' = <<>> /\ cxRet' = NoCx
    /\ UNCHANGED <<confVars, intVars, histVars, tools_, contexts_, threads_,
                   sig, tool, idx, driverCalls>>

\* f() ends: it returns, bails out, or is interrupted
f_ends(th) ==
    /\ pc[th] = "f" /\ self[th].runs = -1
    /\ \E outcome \in {"none", "bailed", "interrupted"} :
         sig' = [sig EXCEPT ![th] = outcome]
    /\ Goto(th, "rft_guard")
    /\ forwarded' = <<>> /\ cxRet' = NoCx
    /\ UNCHANGED <<confVars, intVars, histVars, tools_, contexts_, threads_,
                   tool, self, idx, driverCalls>>

\* a thread outside running_from_thread, or inside f(), calls cx()
cx_lookup(th) ==
    /\ pc[th] \in {"idle", "f", "finished"}
    /\ cxRet' = [th |-> th, on |-> CxTask, cx |-> cx(CxTask, th)]
    /\ forwarded' = <<>>
    /\ UNCHANGED <<confVars, intVars, histVars, tools_, contexts_, threads_,
                   pc, sig, tool, self, idx, driverCalls>>

\* remove_context_for_this_thread() called outside running_from_thread
unbind(th) ==
    /\ pc[th] \in {"idle", "finished"}
    /\ contexts_' = [contexts_ EXCEPT ![CxTask] =
                       remove_context_for_this_thread(@, th)]
    /\ forwarded' = <<>> /\ cxRet' = NoCx
    /\ UNCHANGED <<confVars, intVars, histVars, tools_, threads_, pc, sig,
                   tool, self, idx, driverCalls>>

(***************************************************************************)
(* tools/git.cpp: one run of the git tool                                  *)
(***************************************************************************)
\* everything but the git tool run and the name_matches() call
engineVars == <<cfg, enabledConf, kind, children_, registry, interrupted_,
                tools_, contexts_, threads_, pc, sig, at, tool, self, idx,
                hooks, toolRan, toolGotInt, forwarded, driverCalls, cxRet>>

\* git::ops; the switch of do_run() spells the third one clone_or_pull2
ops == {"clone", "pull", "clone_or_pull"}

\* the operation make_git() constructs the tool with
make_git(no_pull) == IF no_pull THEN "clone" ELSE "clone_or_pull"

\* the states of the destination directory: it does not exist, it exists
\* without a .git entry, it exists with one
Destinations == {"absent", "plain", "repo"}

\* a do_run() that wants both parameters empty before it bails out
missing_parameters_both(u, w) == u = "" /\ w = ""

\* url_.empty() || where_.empty()
missing_parameters(u, w) == u = "" \/ w = ""

\* a do_run() that deletes the directory for redownload only
do_run_deletes_redownload(c) == c.redownload

\* conf::redownload() || conf::reextract()
do_run_deletes(c) == c.redownload \/ c.reextract

\* op::delete_directory(cx, where_, op::optional): the directory is gone,
\* and it is no error when there was none
delete_directory(d) == "absent"

\* fs::exists(where_ / ".git")
dot_git_exists(d) == d = "repo"

\* a do_clone() that clones whatever the directory holds
do_clone_skips_never(d) == FALSE

\* do_clone() returns false without cloning when .git exists
do_clone_skips(d) == dot_git_exists(d)

\* a do_clone_or_pull() that pulls whatever do_clone() returned
do_clone_or_pull_always(cloned) == "do_pull"

\* do_clone_or_pull(): if (!do_clone()) do_pull()
do_clone_or_pull(cloned) == IF ~cloned THEN "do_pull" ELSE "returned"

\* where do_run() goes on once do_clone() returned
after_do_clone(op, cloned) ==
    IF op = "clone_or_pull" THEN do_clone_or_pull(cloned) ELSE "returned"

GitStep(g) == git' = g /\ UNCHANGED <<engineVars, calc>>

\* do_run(): the parameters are checked first
do_run_check ==
    /\ git.pc = "do_run"
    /\ IF missing_parameters(git.url_, git.where_)
         THEN GitStep([git EXCEPT !.pc = "bailed",
                                  !.msg = "git missing parameters"])
         ELSE GitStep([git EXCEPT !.pc = "do_run_delete"])

\* do_run(): the directory is deleted when a switch asks for it
do_run_delete ==
    /\ git.pc = "do_run_delete"
    /\ IF do_run_deletes(cfg)
         THEN GitStep([git EXCEPT !.pc = "switch",
                                  !.dir = delete_directory(@),
                                  !.log = Append(@, "delete_directory")])
         ELSE GitStep([git EXCEPT !.pc = "switch"])

\* do_run(): switch (op_)
do_run_switch ==
    /\ git.pc = "switch"
    /\ GitStep([git EXCEPT !.pc = CASE git.op = "clone" -> "do_clone"
                                    [] git.op = "pull" -> "do_pull"
                                    [] git.op = "clone_or_pull" -> "do_clone"])

\* do_clone(): fs::exists(dot_git), and the early return
do_clone ==
    /\ git.pc = "do_clone"
    /\ IF do_clone_skips(git.dir)
         THEN GitStep([git EXCEPT !.pc = after_do_clone(git.op, FALSE),
                                  !.log = Append(@, "exists")])
         ELSE GitStep([git EXCEPT !.pc = "clone_process",
                                  !.log = Append(@, "exists")])

\* do_clone(): the clone process is run by execute_and_join(); it makes the
\* checkout or it fails, and a failed process bails out
do_clone_process ==
    /\ git.pc = "clone_process"
    /\ \E ok \in BOOLEAN :
         IF ok
           THEN GitStep([git EXCEPT !.pc = after_do_clone(git.op, TRUE),
                                    !.dir = "repo",
                                    !.log = Append(@, "clone")])
           ELSE GitStep([git EXCEPT !.pc = "bailed", !.msg = "process",
                                    !.log = Append(@, "clone")])

\* do_pull(): the pull process is run by execute_and_join()
do_pull ==
    /\ git.pc = "do_pull"
    /\ \E ok \in BOOLEAN :
         IF ok
           THEN GitStep([git EXCEPT !.pc = "returned",
                                    !.log = Append(@, "pull")])
           ELSE GitStep([git EXCEPT !.pc = "bailed", !.msg = "process",
                                    !.log = Append(@, "pull")])

(***************************************************************************)
(* task::name_matches.  A string is a sequence of characters.              *)
(***************************************************************************)
\* std::tolower on the characters that occur
tolower_identity(c) == c

tolower(c) ==
    CASE c = "A" -> "a" [] c = "B" -> "b" [] c = "D" -> "d" [] c = "I" -> "i"
      [] c = "O" -> "o" [] c = "S" -> "s" [] c = "T" -> "t" [] OTHER -> c

\* the loop of strings_match() from position i on
RECURSIVE strings_match_from(_, _, _)
strings_match_from(a, b, i) ==
    IF i > Len(a) THEN TRUE
    ELSE IF (a[i] = "-" \/ a[i] = "_") /\ (b[i] = "-" \/ b[i] = "_")
      THEN strings_match_from(a, b, i + 1)
    ELSE IF tolower(a[i]) # tolower(b[i]) THEN FALSE
    ELSE strings_match_from(a, b, i + 1)

strings_match(a, b) ==
    IF Len(a) # Len(b) THEN FALSE ELSE strings_match_from(a, b, 1)

\* the loop of name_matches_string() over names_ from position i on
RECURSIVE name_matches_string_from(_, _, _)
name_matches_string_from(names, pattern, i) ==
    IF i > Len(names) THEN FALSE
    ELSE IF strings_match(names[i], pattern) THEN TRUE
    ELSE name_matches_string_from(names, pattern, i + 1)

name_matches_string(names, pattern) ==
    name_matches_string_from(names, pattern, 1)

\* replace_all(s, from, to) for a one-character from; to stays one element
replace_all(str, from, to) ==
    [i \in 1..Len(str) |-> IF str[i] = from THEN to ELSE str[i]]

\* std::regex_match(str, re) with std::regex::icase, for an expression of
\* ordinary characters and ".*": str from i on against re from j on
RECURSIVE regex_match_from(_, _, _, _)
regex_match_from(str, i, re, j) ==
    IF j > Len(re) THEN i > Len(str)
    ELSE IF re[j] = ".*"
      THEN \/ regex_match_from(str, i, re, j + 1)
           \/ i <= Len(str) /\ regex_match_from(str, i + 1, re, j)
    ELSE /\ i <= Len(str)
         /\ tolower(str[i]) = tolower(re[j])
         /\ regex_match_from(str, i + 1, re, j + 1)

regex_match(str, re) == regex_match_from(str, 1, re, 1)

name_matches_glob(names, pattern) ==
    LET fixed_pattern == replace_all(replace_all(pattern, "*", ".*"), "_", "-")
    IN \E i \in 1..Len(names) :
         regex_match(replace_all(names[i], "_", "-"), fixed_pattern)

\* pattern.find('*') != npos
name_matches_is_glob(pattern) == \E i \in 1..Len(pattern) : pattern[i] = "*"

\* name_matches(): the pattern is looked at and one of the two is called
name_matches ==
    /\ calc.pc = "name_matches"
    /\ calc' = [calc EXCEPT !.pc = IF name_matches_is_glob(calc.pattern)
                                     THEN "name_matches_glob"
                                     ELSE "name_matches_string"]
    /\ UNCHANGED <<engineVars, git>>

call_name_matches_glob ==
    /\ calc.pc = "name_matches_glob"
    /\ calc' = [calc EXCEPT !.pc = "returned",
                            !.result = name_matches_glob(calc.names_,
                                                         calc.pattern)]
    /\ UNCHANGED <<engineVars, git>>

call_name_matches_string ==
    /\ calc.pc = "name_matches_string"
    /\ calc' = [calc EXCEPT !.pc = "returned",
                            !.result = name_matches_string(calc.names_,
                                                           calc.pattern)]
    /\ UNCHANGED <<engineVars, git>>

(***************************************************************************)
(* Specifications                                                          *)
(***************************************************************************)
Switches == {"clean", "fetch", "build",
             "redownload", "reextract", "reconfigure", "rebuild"}

\* the state once the parallel_tasks and its n children are constructed and
\* added, before parallel_tasks::run()
InitState(n) ==
    /\ children_ = [i \in 1..n |-> i]
    /\ registry = [i \in 1..n |-> i]
    /\ enabledConf \in [Children -> BOOLEAN]
    /\ kind \in [Children -> {"task", "boost_di"}]
    /\ \A tk \in Children : tk > n => enabledConf[tk] /\ kind[tk] = "task"
    /\ interrupted_ = [tk \in Tasks |-> FALSE]
    /\ tools_ = [tk \in Tasks |-> <<>>]
    /\ contexts_ = ConstructedContexts
    /\ threads_ = <<>>
    /\ sig = [th \in Threads |-> "none"]
    /\ at = [th \in Threads |-> 0]
    /\ tool = [th \in Threads |-> "none"]
    /\ self = [th \in Threads |-> NoSelf]
    /\ idx = [th \in Threads |-> 1]
    /\ hooks = [tk \in Tasks |-> <<>>]
    /\ toolRan = [th \in Threads |-> FALSE]
    /\ toolGotInt = {}
    /\ forwarded = <<>>
    /\ driverCalls = 0
    /\ cxRet = NoCx

\* the main thread is about to call parallel_tasks::run()
InitRun ==
    pc = [th \in Threads |-> IF th = MainThread
                               THEN (IF children_ = <<>> THEN "join" ELSE "run")
                               ELSE "idle"]

\* one task under every configuration
Init ==
    /\ cfg \in [Switches -> BOOLEAN]
    /\ InitState(1)
    /\ InitRun
    /\ git = NoGit /\ calc = NoCalc

\* up to MaxChildren tasks, every phase switched on; a disabled task runs
\* none of its own code, so its type is left at "task"
InitGroup ==
    /\ cfg = [s \in Switches |-> s \in {"clean", "fetch", "build", "rebuild"}]
    /\ \E n \in 0..MaxChildren : InitState(n)
    /\ \A tk \in Children : ~enabledConf[tk] => kind[tk] = "task"
    /\ InitRun
    /\ git = NoGit /\ calc = NoCalc

Next ==
    \/ \E th \in Threads :
         \/ run_check_interrupted(th)
         \/ fetch_check_and_patch(th)
         \/ run_tool_push(th)
         \/ run_tool_check_before(th)
         \/ run_tool_start(th)
         \/ run_tool_check_after(th)
         \/ run_tool_pop(th)
         \/ running_from_thread_add(th)
         \/ running_from_thread_guard(th)
         \/ interrupt_all(th)
         \/ parallel_tasks_run(th)
         \/ parallel_tasks_join(th)
         \/ parallel_tasks_join_clear(th)
    \/ \E tk \in Tasks : driver_interrupt(tk)

Spec == Init /\ [][Next]_vars

SpecGroup == InitGroup /\ [][Next]_vars

\* up to MaxChildren enabled tasks that each run a git tool and the patcher,
\* so that each can end normally, bailed out or interrupted
InitGroupTools ==
    /\ InitGroup
    /\ \A i \in 1..Len(children_) :
         enabledConf[children_[i]] /\ kind[children_[i]] = "boost_di"

\* the main thread is scheduled: a join() that can go on does go on
SpecGroupFair ==
    /\ InitGroupTools /\ [][Next]_vars
    /\ WF_vars(parallel_tasks_join(MainThread))
    /\ WF_vars(parallel_tasks_join_clear(MainThread))

\* MaxChildren tasks constructed by the main thread, no run() in progress
InitCx ==
    /\ cfg = [s \in Switches |-> s \in {"clean", "fetch", "build", "rebuild"}]
    /\ InitState(MaxChildren)
    /\ \A tk \in Children : enabledConf[tk] /\ kind[tk] = "task"
    /\ pc = [th \in Threads |-> "idle"]
    /\ git = NoGit /\ calc = NoCalc

NextCx ==
    \E th \in Threads :
        \/ direct_call(th)
        \/ task_parallel(th)
        \/ running_from_thread_add(th)
        \/ f_ends(th)
        \/ running_from_thread_guard(th)
        \/ interrupt_all(th)
        \/ cx_lookup(th)
        \/ unbind(th)

SpecCx == InitCx /\ [][NextCx]_vars

\* one run of the git tool: every operation, the parameters empty or not,
\* every state of the destination, redownload and reextract on or off
InitGit ==
    /\ cfg \in {c \in [Switches -> BOOLEAN] :
                  c.clean /\ c.fetch /\ c.build /\ ~c.reconfigure /\ ~c.rebuild}
    /\ InitState(0)
    /\ pc = [th \in Threads |-> "idle"]
    /\ calc = NoCalc
    /\ \E o \in {make_git(np) : np \in BOOLEAN} \cup {"pull"},
          u \in {"", "https://example/repo.git"},
          w \in {"", "build/di"},
          d \in Destinations :
         git = [pc |-> "do_run", op |-> o, url_ |-> u, where_ |-> w,
                before |-> d, dir |-> d, log |-> <<>>, msg |-> ""]

NextGit ==
    \/ do_run_check
    \/ do_run_delete
    \/ do_run_switch
    \/ do_clone
    \/ do_clone_process
    \/ do_pull

SpecGit == InitGit /\ [][NextGit]_vars


\* the characters of the names and of the patterns, and the strings of them
NameChars == {"a", "B", "-", "_"}
PatternChars == {"a", "A", "b", "-", "_", "*"}
Strings(chars) == UNION {[1..k -> chars] : k \in 0..MaxLen}

\* the names boost_di is constructed with, and two patterns for them
boost_di_names == << <<"b", "o", "o", "s", "t", "-", "d", "i">>,
                     <<"b", "o", "o", "s", "t", "d", "i">>,
                     <<"b", "o", "o", "s", "t", "_", "d", "i">> >>
ExamplePatterns == { <<"B", "o", "o", "s", "t", "_", "D", "I">>,
                     <<"b", "o", "o", "s", "t", "-", "d", "i", "2">>,
                     <<"b", "o", "o", "s", "t", "*">>,
                     <<"*", "d", "i">> }

\* one name_matches() call: a task of one or two short names and a short
\* pattern, or boost_di and a pattern for it
InitNames ==
    /\ cfg = [s \in Switches |-> s \in {"clean", "fetch", "build", "rebuild"}]
    /\ InitState(0)
    /\ pc = [th \in Threads |-> "idle"]
    /\ git = NoGit
    /\ \/ \E n1, n2 \in Strings(NameChars), p \in Strings(PatternChars),
             two \in BOOLEAN :
            /\ ~two => n2 = <<>>
            /\ calc = [pc |-> "name_matches",
                       names_ |-> IF two THEN <<n1, n2>> ELSE <<n1>>,
                       pattern |-> p, result |-> FALSE]
       \/ \E p \in ExamplePatterns :
            calc = [pc |-> "name_matches", names_ |-> boost_di_names,
                    pattern |-> p, result |-> FALSE]

NextNames ==
    \/ name_matches
    \/ call_name_matches_glob
    \/ call_name_matches_string

SpecNames == InitNames /\ [][NextNames]_vars

(***************************************************************************)
(* Properties                                                              *)
(***************************************************************************)
RunChecks == {"chk_clean", "chk_fetch", "chk_build"}
AfterRun == {"rft_guard", "interrupt_all", "finished"}
HookSet(tk) == Range(hooks[tk])

\* C1: when the interruption flag is set as the check_interrupted() after a
\* phase of run() is evaluated, the step raises "interrupted" and leaves
\* run() without invoking a hook; no hook of a later phase has been invoked
\* while that signal unwinds, and once run() is over the task's hooks are
\* never invoked again.
C1_InterruptedAbandonsRun ==
    /\ [][\A th \in Workers :
            /\ (pc[th] \in RunChecks /\ pc'[th] # pc[th]
                /\ interrupted_[self[th].runs])
               => /\ sig'[th] = "interrupted"
                  /\ pc'[th] = "rft_guard"
                  /\ at'[th] = CheckLine(pc[th])
                  /\ hooks' = hooks
            /\ (pc[th] \in AfterRun /\ self[th].runs # -1)
               => hooks'[self[th].runs] = hooks[self[th].runs]]_vars
    /\ [](\A th \in Workers :
            /\ at[th] = 354 => HookSet(self[th].runs) \subseteq {"clean"}
            /\ at[th] = 358 => "build" \notin HookSet(self[th].runs))

\* the check after the clean phase raised while fetch and build were due
C1_Witness ==
    \E th \in Workers :
        /\ at[th] = 354 /\ pc[th] = "rft_guard" /\ sig[th] = "interrupted"
        /\ cfg.fetch /\ cfg.build /\ enabled(self[th].runs)
        /\ hooks[self[th].runs] = <<"clean">>

\* C2: a hook is invoked only when its global switch is on and the task is
\* enabled; a disabled task has no hook invoked, whatever the switches are.
C2_HooksNeedSwitchAndEnabled ==
    \A tk \in Children :
        /\ "clean" \in HookSet(tk) => cfg.clean /\ enabledConf[tk]
        /\ "fetch" \in HookSet(tk) => cfg.fetch /\ enabledConf[tk]
        /\ "build" \in HookSet(tk) => cfg.build /\ enabledConf[tk]
        /\ ~enabledConf[tk] => hooks[tk] = <<>>

\* run() of a disabled task is over, every switch on, no hook invoked
C2_Witness ==
    \E th \in Workers :
        /\ pc[th] = "finished" /\ self[th].runs # -1
        /\ ~enabledConf[self[th].runs]
        /\ cfg.clean /\ cfg.fetch /\ cfg.build /\ make_clean_flags # {}
        /\ hooks[self[th].runs] = <<>>

HookRank(h) == CASE h = "clean" -> 1 [] h = "fetch" -> 2 [] h = "build" -> 3

\* C3: the hooks of one run() are invoked in the order clean, fetch, build,
\* each at most once; the fetch hook is invoked after the clean phase, and
\* once the build hook is invoked the fetch phase is over: none of its
\* tools is registered or in progress.
C3_HookOrder ==
    \A th \in Workers :
        LET tk == self[th].runs IN
        tk # -1 =>
            /\ \A i, j \in 1..Len(hooks[tk]) :
                   i < j => HookRank(hooks[tk][i]) < HookRank(hooks[tk][j])
            /\ pc[th] = "rft_add" => hooks[tk] = <<>>
            /\ "build" \in HookSet(tk) =>
                   /\ pc[th] \in {"chk_build"} \cup AfterRun
                   /\ tools_[tk] = <<>> /\ tool[th] = "none"

\* all three hooks of a task with a git and a patcher tool were invoked
C3_Witness ==
    \E th \in Workers :
        /\ self[th].runs # -1
        /\ kind[self[th].runs] = "boost_di"
        /\ hooks[self[th].runs] = <<"clean", "fetch", "build">>
        /\ pc[th] = "finished"

\* a step that is the interrupt() call of task tk
IsInterrupt(tk) ==
    \/ driver_interrupt(tk)
    \/ \E th \in Threads : interrupt_all(th) /\ registry[idx[th]] = tk

\* C4: the interruption flag never goes back to false; every interrupt()
\* call leaves it true and calls interrupt() once on each tool that tools_
\* holds at the call, and on no other tool.
C4_InterruptMonotonicAndForwards ==
    [][/\ \A tk \in Tasks : interrupted_[tk] => interrupted_'[tk]
       /\ \A tk \in Children :
            IsInterrupt(tk) =>
              /\ interrupted_'[tk]
              /\ Range(forwarded') = {<<tk, t>> : t \in Range(tools_[tk])}
              /\ Len(forwarded') = Cardinality(Range(tools_[tk]))
              /\ \A t \in Range(tools_[tk]) : <<tk, t>> \in toolGotInt']_vars

\* a repeated interrupt() of a task, made while a tool is registered
C4_Witness ==
    \E tk \in Children :
        /\ driverCalls = 2
        /\ forwarded = <<<<tk, "git">>>>
        /\ tools_[tk] = <<"git">>
        /\ interrupted_[tk]

InRunTool == {"tool_pre", "tool_call", "tool_run", "tool_pop"}

\* C5: a tool is in tools_ of its task exactly while a run_tool of that
\* task on that tool is between its push and its pop; with no run_tool in
\* progress tools_ is empty.
C5_ToolRegisteredDuringRunTool ==
    \A tk \in Children :
        /\ \A t \in Tools :
               t \in Range(tools_[tk]) <=>
                   \E th \in Workers : /\ self[th].runs = tk
                                       /\ tool[th] = t
                                       /\ pc[th] \in InRunTool
        /\ Len(tools_[tk]) = Cardinality(Range(tools_[tk]))

\* run_tool was left by a signal of the tool's run() and tools_ is empty
C5_Witness ==
    \E th \in Workers :
        /\ pc[th] = "rft_guard" /\ sig[th] = "bailed"
        /\ tools_[self[th].runs] = <<>>

\* C6: run_tool checks the flag before and after t->run().  Flag set at the
\* first check: "interrupted" is raised and run() of the tool is not
\* called.  Flag set when run() returns: "interrupted" is raised.  A
\* run_tool that raised does not return to fetch().
C6_TwoSidedCheck ==
    /\ [][\A th \in Workers :
            LET tk == self[th].runs IN
            /\ (pc[th] = "tool_pre" /\ pc'[th] # pc[th] /\ interrupted_[tk])
               => /\ sig'[th] = "interrupted" /\ at'[th] = 462
                  /\ pc'[th] = "tool_pop" /\ ~toolRan[th] /\ ~toolRan'[th]
            /\ (pc[th] = "tool_run" /\ pc'[th] # pc[th] /\ interrupted_[tk]
                /\ sig'[th] # "bailed")
               => sig'[th] = "interrupted" /\ at'[th] = 464
            /\ (pc[th] = "tool_pop" /\ pc'[th] # pc[th]
                /\ sig[th] = "interrupted")
               => pc'[th] = "rft_guard" /\ sig'[th] = "interrupted"]_vars
    /\ [](\A th \in Workers : at[th] = 462 => ~toolRan[th])

\* the check before t->run() raised: the tool is registered and was not run
C6_Witness ==
    \E th \in Workers :
        /\ pc[th] = "tool_pop" /\ at[th] = 462 /\ sig[th] = "interrupted"
        /\ ~toolRan[th] /\ tool[th] \in Range(tools_[self[th].runs])

\* the records of thread tid in a registry, in order
RecordsOf(cs, tid) == SelectSeq(cs, LAMBDA r : r.tid = tid)
OthersOf(cs, tid) == SelectSeq(cs, LAMBDA r : r.tid # tid)

\* C7: the context registry of a task never holds two records of the same
\* thread.  (Entering running_from_thread on the thread that constructed
\* the task adds a second record of that thread.)
C7_OneRecordPerThread ==
    \A tk \in Tasks : \A tid \in Threads :
        Len(RecordsOf(contexts_[tk], tid)) <= 1

\* a step in which thread th removes its context from the registry of tk
IsUnbind(th, tk) ==
    \/ unbind(th) /\ tk = CxTask
    \/ running_from_thread_guard(th) /\ tk = self[th].on

\* C8: two threads bound under one task have a record each and cx() gives
\* each its own; cx() of a thread without a record is the "?" context, and
\* otherwise a record of the calling thread, never "?"; removing the context
\* of a thread that has none changes nothing; removing takes one record of
\* the calling thread and leaves every other thread's records alone.
C8_RegistryOperations ==
    /\ [](cxRet # NoCx =>
            LET own == RecordsOf(contexts_[cxRet.on], cxRet.th) IN
            /\ own = <<>> => cxRet.cx = bad
            /\ own # <<>> => /\ cxRet.cx # bad
                             /\ \E i \in 1..Len(own) : own[i].cx = cxRet.cx
            /\ (cxRet.th \in Workers /\ pc[cxRet.th] = "f")
               => cxRet.cx = self[cxRet.th].tname)
    /\ [](\A t1, t2 \in Workers :
            (t1 # t2 /\ pc[t1] = "f" /\ pc[t2] = "f"
             /\ self[t1].on = self[t2].on)
            => /\ RecordsOf(contexts_[self[t1].on], t1)
                    = <<[tid |-> t1, cx |-> self[t1].tname]>>
               /\ RecordsOf(contexts_[self[t2].on], t2)
                    = <<[tid |-> t2, cx |-> self[t2].tname]>>)
    /\ [][\A th \in Threads : \A tk \in Children :
            IsUnbind(th, tk) =>
              /\ OthersOf(contexts_'[tk], th) = OthersOf(contexts_[tk], th)
              /\ \A k \in Tasks \ {tk} : contexts_'[k] = contexts_[k]
              /\ IF RecordsOf(contexts_[tk], th) = <<>>
                   THEN contexts_'[tk] = contexts_[tk]
                   ELSE RecordsOf(contexts_'[tk], th)
                          = Tail(RecordsOf(contexts_[tk], th))]_vars

\* two pool threads are bound under the task and one just got its own
\* context from cx()
C8_Witness ==
    \E t1, t2 \in Workers :
        /\ t1 # t2 /\ pc[t1] = "f" /\ pc[t2] = "f"
        /\ cxRet = [th |-> t1, on |-> CxTask, cx |-> ThreadName(t1)]

Started == {th \in Workers : pc[th] # "idle"}

\* C9: parallel_tasks::run() starts one thread per child and no other, the
\* context each thread has in the registry of the parallel_tasks is named
\* after its child, and run() has not returned while a thread is unfinished.
C9_ParallelRun ==
    /\ Cardinality(Started) <= Len(children_)
    /\ \A t1, t2 \in Started : self[t1].runs = self[t2].runs => t1 = t2
    /\ pc[MainThread] \in {"join", "returned"} =>
           /\ Cardinality(Started) = Len(children_)
           /\ {self[th].runs : th \in Started} = Range(children_)
    /\ pc[MainThread] = "join" => Len(threads_) = Len(children_)
    /\ pc[MainThread] = "returned" =>
           /\ \A th \in Started : pc[th] = "finished"
           /\ threads_ = <<>>
    /\ \A th \in Started :
           pc[th] \notin {"rft_add", "interrupt_all", "finished"} =>
               /\ cx(Parallel, th) = name(self[th].runs)
               /\ Len(RecordsOf(contexts_[Parallel], th)) = 1

\* run() has returned after starting and joining two or more threads
C9_Witness ==
    /\ pc[MainThread] = "returned"
    /\ Len(children_) >= 2
    /\ Cardinality(Started) = Len(children_)

\* C10: at the end of running_from_thread on a worker thread, "bailed" leads
\* to interrupt_all(), after which the flag of every registered task is
\* set; "interrupted" ends the thread with no interrupt() call and every
\* flag as it was; the thread's context record is gone before either.
C10_ThreadBoundary ==
    /\ [][\A th \in Workers :
            /\ (pc[th] = "rft_guard" /\ pc'[th] # pc[th] /\ sig[th] = "bailed"
                /\ registry # <<>>)
               => pc'[th] = "interrupt_all" /\ idx'[th] = 1
            /\ (pc[th] = "rft_guard" /\ pc'[th] # pc[th]
                /\ sig[th] = "interrupted")
               => /\ pc'[th] = "finished"
                  /\ interrupted_' = interrupted_
                  /\ forwarded' = <<>>
            /\ (pc[th] = "interrupt_all" /\ idx'[th] # idx[th])
               => interrupted_'[registry[idx[th]]]
            /\ (pc[th] = "interrupt_all" /\ pc'[th] # pc[th])
               => /\ pc'[th] = "finished"
                  /\ \A tk \in Range(registry) : interrupted_'[tk]
            /\ pc[th] = "finished" => pc'[th] = "finished"]_vars
    /\ [](\A th \in Workers :
            pc[th] \in {"interrupt_all", "finished"} =>
                RecordsOf(contexts_[self[th].on], th) = <<>>)

\* a thread that caught "bailed" has interrupted the first registered task
\* and is about to interrupt the second
C10_Witness ==
    \E th \in Workers :
        /\ pc[th] = "interrupt_all" /\ idx[th] = 2
        /\ Len(registry) >= 2
        /\ interrupted_[registry[1]] /\ ~interrupted_[registry[2]]
        /\ RecordsOf(contexts_[Parallel], th) = <<>>

\* the number of operations e that a run of the git tool has issued
Issued(e) == Cardinality({i \in 1..Len(git.log) : git.log[i] = e})

\* the run of the git tool is over: do_run() returned, or bailed out
GitOver == git.pc \in {"returned", "bailed"}
GitValid == git.url_ # "" /\ git.where_ # ""
GitForced == cfg.redownload \/ cfg.reextract

\* C11: in clone-or-pull mode, the mode make_git() selects when no-pull is
\* off, with a URL and a destination and neither redownload nor reextract: a
\* destination without .git gets exactly one clone and no pull, a destination
\* with .git gets exactly one pull and no clone; no clone is ever issued
\* over an existing checkout, and do_run() does not return without a pull of
\* an existing one.
C11_CloneOrPull ==
    (git.pc # "none" /\ git.op = make_git(FALSE) /\ GitValid /\ ~GitForced) =>
        /\ git.before = "repo" => Issued("clone") = 0
        /\ git.before # "repo" => Issued("pull") = 0
        /\ Issued("clone") <= 1 /\ Issued("pull") <= 1
        /\ (GitOver /\ git.before = "repo") => Issued("pull") = 1
        /\ (GitOver /\ git.before # "repo") => Issued("clone") = 1
        /\ (git.pc = "returned" /\ git.before = "repo") =>
               git.log = <<"exists", "pull">>

\* clone-or-pull found the .git entry and pulled
C11_Witness ==
    /\ git.pc = "returned" /\ git.op = "clone_or_pull" /\ ~GitForced
    /\ git.before = "repo" /\ git.log = <<"exists", "pull">>

\* C12 as stated: a run in clone mode with a URL and a destination issues
\* exactly one clone, whatever the destination holds.
C12_CloneUnconditional ==
    (git.pc # "none" /\ git.op = "clone" /\ GitValid /\ GitOver) =>
        Issued("clone") = 1

\* C12: a run in clone mode with a URL and a destination issues no pull, and
\* issues exactly one clone unless the destination holds .git when do_clone()
\* looks: then it issues no operation at all and returns.
C12_CloneUnlessMarker ==
    (git.pc # "none" /\ git.op = "clone" /\ GitValid /\ GitOver) =>
        /\ Issued("pull") = 0
        /\ IF git.before = "repo" /\ ~GitForced
             THEN Issued("clone") = 0 /\ git.pc = "returned"
                  /\ git.dir = git.before
             ELSE Issued("clone") = 1

\* clone mode returned from a destination with .git and issued nothing
C12_Witness ==
    /\ git.pc = "returned" /\ git.op = "clone" /\ git.before = "repo"
    /\ git.log = <<"exists">>

\* C13: a run with an empty URL or an empty destination bails out with
\* "git missing parameters" in every mode, as its first step, and nothing
\* else happens: the directory is not deleted and no operation is issued.
C13_MissingParameters ==
    /\ [][(git.pc = "do_run" /\ git'.pc # git.pc /\ ~GitValid)
            => /\ git'.pc = "bailed" /\ git'.msg = "git missing parameters"
               /\ git'.log = <<>> /\ git'.dir = git.dir]_vars
    /\ []((git.pc # "none" /\ ~GitValid) =>
            /\ git.pc \in {"do_run", "bailed"}
            /\ git.log = <<>> /\ git.dir = git.before)

\* the URL is empty and redownload is on: bailed out, the checkout is there
C13_Witness ==
    /\ git.pc = "bailed" /\ git.url_ = "" /\ git.where_ # ""
    /\ cfg.redownload /\ git.dir = "repo" /\ git.log = <<>>

\* C16: with redownload or reextract on and a URL and a destination, in
\* every mode the directory is deleted before .git is looked for and before
\* a clone or a pull is issued; so clone-or-pull on a destination that held
\* .git issues a clone and no pull.
C16_DeleteFirst ==
    (git.pc # "none" /\ GitValid /\ GitForced) =>
        /\ git.log # <<>> =>
             /\ git.log[1] = "delete_directory"
             /\ Issued("delete_directory") = 1
        /\ git.pc \in {"switch", "do_clone", "clone_process", "do_pull",
                       "returned"} => git.log # <<>>
        /\ git.pc = "do_clone" => git.dir = "absent"
        /\ git.op = "clone_or_pull" =>
             /\ Issued("pull") = 0
             /\ GitOver => Issued("clone") = 1

\* reextract alone is on: the checkout was deleted, then cloned again
C16_Witness ==
    /\ git.pc = "returned" /\ git.op = "clone_or_pull" /\ git.before = "repo"
    /\ cfg.reextract /\ ~cfg.redownload
    /\ git.log = <<"delete_directory", "exists", "clone">>

Dashes == {"-", "_"}
CasePairs == {<<"a", "A">>, <<"b", "B">>, <<"d", "D">>, <<"i", "I">>,
              <<"o", "O">>, <<"s", "S">>, <<"t", "T">>}
EqualIgnoringCase(x, y) == x = y \/ <<x, y>> \in CasePairs
                                 \/ <<y, x>> \in CasePairs

\* C14: for a pattern without '*', name_matches(pattern) is true iff some
\* name has the length of the pattern and at every position both characters
\* are '-' or '_', or the two are equal ignoring case; so boost-di matches
\* Boost_DI and does not match boost-di2.
C14_ExactMatch ==
    (calc.pc = "returned" /\ \A k \in 1..Len(calc.pattern) :
                                 calc.pattern[k] # "*") =>
        /\ calc.result =
             \E i \in 1..Len(calc.names_) :
                 /\ Len(calc.names_[i]) = Len(calc.pattern)
                 /\ \A k \in 1..Len(calc.pattern) :
                        \/ calc.names_[i][k] \in Dashes
                           /\ calc.pattern[k] \in Dashes
                        \/ EqualIgnoringCase(calc.names_[i][k],
                                             calc.pattern[k])
        /\ (calc.names_ = boost_di_names /\ Len(calc.pattern) = 8)
             => calc.result
        /\ (calc.names_ = boost_di_names /\ Len(calc.pattern) = 9)
             => ~calc.result

\* boost_di was asked for Boost_DI and matched
C14_Witness ==
    /\ calc.pc = "returned" /\ calc.names_ = boost_di_names
    /\ calc.pattern = <<"B", "o", "o", "s", "t", "_", "D", "I">>
    /\ calc.result

\* the clean switches that are on
CleanOn == {s \in {"redownload", "reextract", "reconfigure", "rebuild"} : cfg[s]}
CleanRank(n) == CASE n = "redownload" -> 1 [] n = "reextract" -> 2
                  [] n = "reconfigure" -> 3 [] n = "rebuild" -> 4

\* C15: under each of the 16 settings of redownload, reextract, reconfigure
\* and rebuild, make_clean_flags() is the set of the switches that are on
\* and its string is their names in that fixed order with '|' between them
\* ("redownload|rebuild"); when it is nothing, the clean hook is not invoked
\* though the clean switch is on and the task enabled, and otherwise a task
\* past its clean phase has had it invoked.
C15_CleanFlags ==
    LET str == to_string(make_clean_flags)
        k == Cardinality(CleanOn) IN
    /\ make_clean_flags = CleanOn
    /\ Len(str) = IF k = 0 THEN 0 ELSE 2 * k - 1
    /\ \A i \in 1..Len(str) :
         IF i % 2 = 0 THEN str[i] = "|"
         ELSE /\ str[i] \in CleanOn
              /\ i + 2 <= Len(str) => CleanRank(str[i]) < CleanRank(str[i + 2])
    /\ CleanOn = {"redownload", "rebuild"}
         => str = <<"redownload", "|", "rebuild">>
    /\ \A th \in Workers :
         LET tk == self[th].runs IN
         (tk # -1 /\ pc[th] # "rft_add") =>
            /\ CleanOn = {} => "clean" \notin HookSet(tk)
            /\ (CleanOn # {} /\ cfg.clean /\ enabledConf[tk])
                 => "clean" \in HookSet(tk)

\* clean is on, the task enabled, no clean flag set: run() ended with the
\* fetch and build hooks only
C15_Witness ==
    \E th \in Workers :
        /\ self[th].runs # -1 /\ pc[th] = "finished"
        /\ cfg.clean /\ enabledConf[self[th].runs] /\ CleanOn = {}
        /\ hooks[self[th].runs] = <<"fetch", "build">>

\* C17: no interrupt() is lost against a concurrent run_tool.  An
\* interrupt() made while a tool is registered, the window between the first
\* check and the call of run() included, is sent to that tool; when the flag
\* was set before the tool was registered, run() of the tool is not called.
\* So a tool that is past the first check on an interrupted task has been
\* sent interrupt().
C17_NoLostInterrupt ==
    /\ [][\A th \in Workers :
            LET tk == self[th].runs IN
            /\ (tk # -1 /\ pc[th] \in InRunTool /\ IsInterrupt(tk))
                 => <<tk, tool[th]>> \in toolGotInt'
            /\ (tk # -1 /\ pc[th] = "tool_push" /\ interrupted_[tk])
                 => ~toolRan'[th] /\ pc'[th] # "tool_call"
            /\ (tk # -1 /\ pc[th] = "tool_pre" /\ interrupted_[tk])
                 => ~toolRan'[th] /\ pc'[th] # "tool_call"]_vars
    /\ [](\A th \in Workers :
            LET tk == self[th].runs IN
            (tk # -1 /\ interrupted_[tk]
             /\ (pc[th] \in {"tool_call", "tool_run"} \/ toolRan[th]))
              => <<tk, tool[th]>> \in toolGotInt)

\* interrupt() came between the first check and the call of run(): the tool
\* is registered, not yet run, and was sent interrupt()
C17_Witness ==
    \E th \in Workers :
        /\ pc[th] = "tool_call" /\ ~toolRan[th]
        /\ interrupted_[self[th].runs]
        /\ <<self[th].runs, tool[th]>> \in toolGotInt

\* C19: run() makes no check before its first phase.  When run() of an
\* enabled task is entered with the flag set, the clean phase is executed
\* (the clean hook is invoked iff the clean switch is on and a clean flag is
\* set) and no signal is raised; the check after the clean phase then raises
\* "interrupted" with no further hook, and the fetch and build hooks are not
\* invoked: they are not at that check, nor while the signal unwinds, nor
\* after run() is over.
C19_FirstCheckAfterClean ==
    /\ [][\A th \in Workers :
            LET tk == self[th].runs IN
            tk # -1 =>
              /\ (pc[th] = "rft_add" /\ pc'[th] # pc[th]
                  /\ enabledConf[tk] /\ interrupted_[tk])
                 => /\ pc'[th] = "chk_clean" /\ sig'[th] = "none"
                    /\ hooks'[tk] = IF cfg.clean /\ CleanOn # {}
                                      THEN <<"clean">> ELSE <<>>
              /\ (pc[th] = "chk_clean" /\ pc'[th] # pc[th] /\ interrupted_[tk])
                 => /\ sig'[th] = "interrupted" /\ at'[th] = 354
                    /\ pc'[th] = "rft_guard" /\ hooks'[tk] = hooks[tk]
              /\ interrupted_[tk] => interrupted_'[tk]
              /\ pc[th] \in AfterRun => hooks'[tk] = hooks[tk]]_vars
    /\ [](\A th \in Workers :
            LET tk == self[th].runs IN
            (tk # -1 /\ (pc[th] = "chk_clean" \/ at[th] = 354))
              => HookSet(tk) \subseteq {"clean"})

\* the flag is set and the task stands at the check after its clean phase,
\* the clean hook invoked
C19_Witness ==
    \E th \in Workers :
        /\ pc[th] = "chk_clean" /\ sig[th] = "none"
        /\ interrupted_[self[th].runs] /\ enabledConf[self[th].runs]
        /\ hooks[self[th].runs] = <<"clean">>

\* the positions of a thread that has not yet left running_from_thread
RunningPcs == {"idle", "rft_add", "f", "chk_clean", "chk_do_fetch",
               "chk_fetch", "chk_build", "tool_push", "tool_pre", "tool_call",
               "tool_run", "tool_pop", "rft_guard", "interrupt_all"}

\* C18: parallel_tasks::run() returns normally once the run() of every child
\* is over, whatever its outcome.  A thread whose child bailed out or was
\* interrupted ends like any other, with no signal left; join() can always
\* take its next step when the thread it waits for has ended, so no child
\* keeps the others from being joined; run() returns with no signal, every
\* thread ended and threads_ empty, and it stays empty; and once every
\* thread has ended, run() does return.
C18_RunReturns ==
    /\ [](\A th \in Workers :
            /\ pc[th] \notin RunningPcs => pc[th] = "finished" /\ sig[th] = "none"
            /\ pc[th] = "finished" => tool[th] = "none")
    /\ [](sig[MainThread] = "none" /\ at[MainThread] = 0)
    /\ [](pc[MainThread] = "join" =>
            IF idx[MainThread] <= Len(threads_)
              THEN pc[threads_[idx[MainThread]]] \notin RunningPcs
                     => ENABLED parallel_tasks_join(MainThread)
              ELSE ENABLED parallel_tasks_join_clear(MainThread))
    /\ [](pc[MainThread] = "returned" =>
            /\ threads_ = <<>>
            /\ \A th \in 1..Len(children_) : pc[th] = "finished")
    /\ [][pc[MainThread] = "returned" => pc'[MainThread] = "returned"]_vars
    /\ (pc[MainThread] = "join"
        /\ \A i \in 1..Len(threads_) : pc[threads_[i]] \notin RunningPcs)
       ~> (pc[MainThread] = "returned")

\* run() returned after a child bailed out, which interrupted them all, and
\* a second child did not get to its build phase
C18_Witness ==
    /\ pc[MainThread] = "returned" /\ threads_ = <<>> /\ driverCalls = 0
    /\ \E t1, t2 \in Children :
         /\ t1 # t2
         /\ interrupted_[t1] /\ interrupted_[t2]
         /\ "build" \notin HookSet(t1) /\ "build" \notin HookSet(t2)
         /\ enabledConf[t1] /\ enabledConf[t2]

\* the positions of a worker thread between the add of its context record
\* and the guard that removes it
BoundPcs == RunningPcs \ {"idle", "rft_add", "interrupt_all"}

====
